---- MODULE Spec2Model ----
(***************************************************************************)
(* Release notifier (src/src/main.rs): process_repos polls the latest      *)
(* release of each repository, compares its tag with the persisted record  *)
(* prev.json, delivers the assets of a changed release by upload or by an  *)
(* aggregated link message, and saves the record at the end of the run.    *)
(***************************************************************************)
EXTENDS Integers, Sequences, FiniteSets, TLC

\* ---------------------------------------------------------------- bounds
MaxAssets == 2

\* ------------------------------------------------------------- constants
\* the repository list of main()
repos == <<"NoName-exe/revanced-extended", "ReadYouApp/ReadYou">>
\* a repository that may be recorded in prev.json without being polled
OtherRepo == "a/b"
AllRepos == {repos[i] : i \in 1..Len(repos)} \cup {OtherRepo}
Tags == {"v1", "v2"}
\* 50 * 1024 * 1024, the upload limit of the size test
SIZE_THRESHOLD == 50 * 1024 * 1024
\* Content-Length values a HEAD response may carry
Sizes == {0, 1, SIZE_THRESHOLD, SIZE_THRESHOLD + 1}

VARIABLES
  file,       \* prev.json on disk
  latest,     \* the hosting API: repository -> tag of its latest release
  pc,         \* position of process_repos
  prev,       \* prev.repos, the in-memory record (a map repo -> tag)
  loaded,     \* the record as load_prev returned it in this run
  ri,         \* index of the repository of the outer loop
  release,    \* the fetched release: tag_name and number of assets
  ai,         \* index of the asset of the inner loop
  resp,       \* response of the latest HEAD request made for this release
  size,       \* local `size` of the current asset
  message,    \* local `message`, as the sequence of its formatted parts
  sent_text,  \* local `sent_text`
  status,     \* what the latest POST to the messaging endpoint came back with
  log,        \* requests, prints and pushes of this run, in order
  settled,    \* last run returned Ok and no release was published since
  rerun,      \* this run started in a settled state
  \* download_assets_concurrent (src/src/download.rs)
  dpc,        \* position of download_assets_concurrent
  drepo,      \* its argument `repo`
  dn,         \* number of assets of its argument `release`
  di,         \* index of the spawn loop, then of the join loop
  tasks,      \* asset index -> state of the task spawned for it
  file_paths, \* local `file_paths`
  dresult     \* what download_assets_concurrent returned

\* the variables of process_repos and of its environment
pvars == <<file, latest, pc, prev, loaded, ri, release, ai, resp, size,
           message, sent_text, status, log, settled, rerun>>

\* the variables of download_assets_concurrent
dvars == <<dpc, drepo, dn, di, tasks, file_paths, dresult>>

vars == <<pvars, dvars>>

\* ------------------------------------------------------------ the record
EmptyMap == [k \in {} |-> "v1"]

InsertNoOverwrite(m, k, v) ==
  [x \in DOMAIN m \cup {k} |-> IF x \in DOMAIN m THEN m[x] ELSE v]

InsertFresh(m, k, v) == [x \in {k} |-> v]

\* HashMap::insert
Insert(m, k, v) ==
  [x \in DOMAIN m \cup {k} |-> IF x = k THEN v ELSE m[x]]

ToJsonListedOnly(m) ==
  {<<k, m[k]>> : k \in DOMAIN m \cap {repos[i] : i \in 1..Len(repos)}}

\* serde_json::to_string_pretty(prev): the JSON object {"repos": {k: v, ...}}
\* as the set of its members
ToJson(m) == {<<k, m[k]>> : k \in DOMAIN m}

\* serde_json::from_str of a well-formed document
FromJson(doc) ==
  [k \in {p[1] : p \in doc} |-> (CHOOSE p \in doc : p[1] = k)[2]]

FileStates == {"missing", "unreadable", "malformed", "valid"}
NoFile == [state |-> "missing", doc |-> {}]
Truncated == [state |-> "malformed", doc |-> {}]
ValidFile(m) == [state |-> "valid", doc |-> ToJson(m)]

\* save_prev: the files it can leave behind; on a write error the old file
\* or a truncated one
save_prev(f, p, ok) == IF ok THEN {ValidFile(p)} ELSE {f, Truncated}

\* load_prev: an empty record unless the file exists, reads and parses
load_prev(f) ==
  IF f.state = "valid" THEN FromJson(f.doc) ELSE EmptyMap

HasChangedAlways(p, repo, tag) == TRUE

HasChangedMissingOnly(p, repo, tag) == repo \notin DOMAIN p

\* the negation of the skip test of process_repos
HasChanged(p, repo, tag) ==
  ~(repo \in DOMAIN p /\ p[repo] = tag)

\* ------------------------------------------------------------ size probe
NoResp == [kind |-> "none", len |-> 0]
ProbeResponses ==
  {[kind |-> "error", len |-> 0], [kind |-> "noheader", len |-> 0],
   [kind |-> "badheader", len |-> 0]}
  \cup {[kind |-> "length", len |-> s] : s \in Sizes}

\* fetch_asset_size: Result<u64>
fetch_asset_size(r) ==
  IF r.kind = "error" THEN [ok |-> FALSE, val |-> 0]
  ELSE IF r.kind = "noheader" THEN [ok |-> TRUE, val |-> 0]
  ELSE IF r.kind = "badheader" THEN [ok |-> FALSE, val |-> 0]
  ELSE [ok |-> TRUE, val |-> r.len]

\* Result::unwrap_or
unwrap_or(res, d) == IF res.ok THEN res.val ELSE d

ClassifyStrict(s) ==
  IF s > 0 /\ s < SIZE_THRESHOLD THEN "upload" ELSE "link"

ClassifyNoZeroTest(s) ==
  IF s <= SIZE_THRESHOLD THEN "upload" ELSE "link"

\* the size test of the asset loop
Classify(s) ==
  IF s > 0 /\ s <= SIZE_THRESHOLD THEN "upload" ELSE "link"

\* ---------------------------------------------------------- link message
\* the two message.push_str calls of the link branch: the link line and the
\* curl block of the asset, appended to the message
PushLink(msg, a) == msg \o <<<<"link", a>>, <<"curl", a>>>>

\* ------------------------------------------------------- error operator
TrySwallow(ok, cont) == cont

\* the `?` operator: continue on Ok, return the error from process_repos
Try(ok, cont) == IF ok THEN cont ELSE "failed"

\* --------------------------------------------------- messaging endpoint
\* what a POST to the messaging endpoint can come back with: a transport
\* error, a 2xx response or a non-2xx response
PostResults == {"error", "2xx", "non2xx"}

\* Result of RequestBuilder::send(): Err on a transport error only; a
\* response is Ok whatever its status (no error_for_status is applied)
send_ok(r) == r # "error"

\* ------------------------------------------------------------------ log
Ev(kind, repo, asset, ok, data) ==
  [kind |-> kind, repo |-> repo, asset |-> asset, ok |-> ok, data |-> data]

NoRelease == [tag_name |-> "", assets |-> 0]
NoResult ==
  [kind |-> "none", error |-> "none", paths |-> <<>>, failed |-> {},
   succeeded |-> {}]

\* download_assets_concurrent is not running
DownloadIdle ==
  /\ dpc = "idle"
  /\ drepo = ""
  /\ dn = 0
  /\ di = 1
  /\ tasks = <<>>
  /\ file_paths = <<>>
  /\ dresult = NoResult
CurRepo == repos[ri]

Init ==
  /\ file \in {NoFile, [state |-> "unreadable", doc |-> {}], Truncated}
       \cup {ValidFile(m) : m \in
               {x \in UNION {[S -> Tags] : S \in SUBSET AllRepos} :
                  OtherRepo \in DOMAIN x => x[OtherRepo] = "v1"}}
  /\ latest \in [{repos[i] : i \in 1..Len(repos)} -> Tags]
  /\ pc = "start"
  /\ prev = EmptyMap
  /\ loaded = EmptyMap
  /\ ri = 1
  /\ release = NoRelease
  /\ ai = 1
  /\ resp = NoResp
  /\ size = 0
  /\ message = <<>>
  /\ sent_text = FALSE
  /\ status = "none"
  /\ log = <<>>
  /\ settled = FALSE
  /\ rerun = FALSE
  /\ DownloadIdle

StartRunStrict ==
  /\ pc \in {"start", "done", "failed"}
  /\ prev' = load_prev(file)
  /\ loaded' = prev'
  /\ ri' = 1
  /\ pc' = IF file.state = "valid" THEN "repos" ELSE "failed"
  /\ log' = <<>>
  /\ rerun' = settled
  /\ release' = NoRelease
  /\ ai' = 1
  /\ resp' = NoResp
  /\ size' = 0
  /\ message' = <<>>
  /\ sent_text' = FALSE
  /\ status' = "none"
  /\ UNCHANGED <<file, latest, settled>>
  /\ UNCHANGED dvars

\* process_repos is called: load_prev, then the loop over repos begins
StartRun ==
  /\ pc \in {"start", "done", "failed"}
  /\ prev' = load_prev(file)
  /\ loaded' = prev'
  /\ ri' = 1
  /\ pc' = "repos"
  /\ log' = <<>>
  /\ rerun' = settled
  /\ release' = NoRelease
  /\ ai' = 1
  /\ resp' = NoResp
  /\ size' = 0
  /\ message' = <<>>
  /\ sent_text' = FALSE
  /\ status' = "none"
  /\ UNCHANGED <<file, latest, settled>>
  /\ UNCHANGED dvars

\* fetch_latest_release(repo).await?, the skip test and the start of a
\* new release's delivery
FetchRelease ==
  /\ pc = "repos"
  /\ ri <= Len(repos)
  /\ \E ok \in BOOLEAN, n \in 0..MaxAssets :
       LET rel == [tag_name |-> latest[CurRepo], assets |-> n]
           changed == HasChanged(prev, CurRepo, rel.tag_name)
           fetched == Ev("fetch", CurRepo, 0, ok,
                         IF ok THEN <<rel.tag_name, n>> ELSE <<>>)
       IN  /\ pc' = Try(ok, IF changed THEN "assets" ELSE "repos")
           /\ IF pc' = "assets"
                THEN /\ log' = log \o <<fetched, Ev("new", CurRepo, 0, TRUE, <<>>)>>
                     /\ release' = rel
                     /\ message' = <<<<"header", CurRepo, rel.tag_name>>>>
                     /\ sent_text' = FALSE
                     /\ ai' = 1
                     /\ ri' = ri
                ELSE IF pc' = "repos"
                THEN /\ log' = log \o <<fetched, Ev("skip", CurRepo, 0, TRUE, <<>>)>>
                     /\ ri' = ri + 1
                     /\ UNCHANGED <<release, message, sent_text, ai>>
                ELSE /\ log' = Append(log, fetched)
                     /\ UNCHANGED <<release, message, sent_text, ai, ri>>
           /\ settled' = IF pc' = "failed" THEN FALSE ELSE settled
  /\ UNCHANGED <<file, latest, prev, loaded, resp, size, status, rerun>>
  /\ UNCHANGED dvars

\* fetch_asset_size(...).await.unwrap_or(0)
ProbeSize ==
  /\ pc = "assets"
  /\ ai <= release.assets
  /\ \E r \in ProbeResponses :
       /\ resp' = r
       /\ size' = unwrap_or(fetch_asset_size(r), 0)
  /\ log' = Append(log, Ev("probe", CurRepo, ai, TRUE, <<>>))
  /\ pc' = "route"
  /\ status' = "none"
  /\ UNCHANGED <<file, latest, prev, loaded, ri, release, ai, message,
                 sent_text, settled, rerun>>
  /\ UNCHANGED dvars

\* the size test: the upload branch begins, or the link branch runs
Route ==
  /\ pc = "route"
  /\ IF Classify(size) = "upload"
       THEN /\ pc' = "get"
            /\ UNCHANGED <<message, sent_text, ai, size, log>>
       ELSE /\ message' = PushLink(message, ai)
            /\ sent_text' = TRUE
            /\ log' = Append(log, Ev("link", CurRepo, ai, TRUE, <<>>))
            /\ ai' = ai + 1
            /\ size' = 0
            /\ pc' = "assets"
  /\ UNCHANGED <<file, latest, prev, loaded, ri, release, resp, status,
                 settled, rerun>>
  /\ UNCHANGED dvars

\* client.get(url).send().await?.bytes().await?
GetBody ==
  /\ pc = "get"
  /\ \E ok \in BOOLEAN :
       /\ log' = Append(log, Ev("get", CurRepo, ai, ok, <<>>))
       /\ pc' = Try(ok, "post")
  /\ settled' = IF pc' = "failed" THEN FALSE ELSE settled
  /\ UNCHANGED <<file, latest, prev, loaded, ri, release, ai, resp, size,
                 message, sent_text, status, rerun>>
  /\ UNCHANGED dvars

\* client.post(sendDocument).multipart(form).send().await?
PostDocument ==
  /\ pc = "post"
  /\ \E r \in PostResults :
       /\ status' = r
       /\ log' = Append(log, Ev("sendDocument", CurRepo, ai, send_ok(r), <<>>))
       /\ pc' = Try(send_ok(r), "assets")
  /\ IF pc' = "assets"
       THEN ai' = ai + 1 /\ size' = 0
       ELSE UNCHANGED <<ai, size>>
  /\ settled' = IF pc' = "failed" THEN FALSE ELSE settled
  /\ UNCHANGED <<file, latest, prev, loaded, ri, release, resp, message,
                 sent_text, rerun>>
  /\ UNCHANGED dvars

\* if sent_text { client.post(sendMessage).form(...).send().await? }
SendMessage ==
  /\ pc = "assets"
  /\ ai > release.assets
  /\ sent_text
  /\ \E r \in PostResults :
       /\ status' = r
       /\ log' = Append(log, Ev("sendMessage", CurRepo, 0, send_ok(r), message))
       /\ pc' = Try(send_ok(r), "insert")
  /\ settled' = IF pc' = "failed" THEN FALSE ELSE settled
  /\ UNCHANGED <<file, latest, prev, loaded, ri, release, ai, resp, size,
                 message, sent_text, rerun>>
  /\ UNCHANGED dvars

InsertTagAndSave ==
  /\ \/ pc = "insert"
     \/ pc = "assets" /\ ai > release.assets /\ ~sent_text
  /\ prev' = Insert(prev, CurRepo, release.tag_name)
  /\ ri' = ri + 1
  /\ pc' = "repos"
  /\ release' = NoRelease
  /\ message' = <<>>
  /\ sent_text' = FALSE
  /\ ai' = 1
  /\ resp' = NoResp
  /\ status' = "none"
  /\ file' = ValidFile(prev')
  /\ UNCHANGED <<latest, loaded, size, log, settled, rerun>>
  /\ UNCHANGED dvars

\* prev.repos.insert(repo, release.tag_name), end of the loop body
InsertTag ==
  /\ \/ pc = "insert"
     \/ pc = "assets" /\ ai > release.assets /\ ~sent_text
  /\ prev' = Insert(prev, CurRepo, release.tag_name)
  /\ ri' = ri + 1
  /\ pc' = "repos"
  /\ release' = NoRelease
  /\ message' = <<>>
  /\ sent_text' = FALSE
  /\ ai' = 1
  /\ resp' = NoResp
  /\ status' = "none"
  /\ UNCHANGED <<file, latest, loaded, size, log, settled, rerun>>
  /\ UNCHANGED dvars

\* save_prev(prev_path, &prev)?; Ok(())
SavePrev ==
  /\ pc = "repos"
  /\ ri > Len(repos)
  /\ \E ok \in BOOLEAN :
       /\ log' = Append(log, Ev("save", "", 0, ok, <<>>))
       /\ pc' = Try(ok, "done")
       /\ file' \in save_prev(file, prev, ok)
  /\ settled' = (pc' = "done")
  /\ UNCHANGED <<latest, prev, loaded, ri, release, ai, resp, size,
                 message, sent_text, status, rerun>>
  /\ UNCHANGED dvars

\* the hosting API publishes a new latest release between two runs
Publish ==
  /\ pc \in {"done", "failed"}
  /\ \E r \in DOMAIN latest, t \in Tags :
       /\ t # latest[r]
       /\ latest' = [latest EXCEPT ![r] = t]
  /\ settled' = FALSE
  /\ UNCHANGED <<file, pc, prev, loaded, ri, release, ai, resp, size,
                 message, sent_text, status, log, rerun>>
  /\ UNCHANGED dvars

Next ==
  \/ StartRun
  \/ FetchRelease
  \/ ProbeSize
  \/ Route
  \/ GetBody
  \/ PostDocument
  \/ SendMessage
  \/ InsertTag
  \/ SavePrev
  \/ Publish

Spec == Init /\ [][Next]_vars

TypeOK ==
  /\ file.state \in FileStates
  /\ pc \in {"start", "repos", "assets", "route", "get", "post", "insert",
             "done", "failed"}
  /\ DOMAIN prev \subseteq AllRepos
  /\ ai \in 1..(MaxAssets + 1)
  /\ status \in PostResults \cup {"none"}
  /\ ri \in 1..(Len(repos) + 1)
\* ------------------------------------------------- reading the run's log
LogIdx == 1..Len(log)
Polled == {repos[i] : i \in 1..Len(repos)}
RunEnded == pc \in {"done", "failed"}
DeliveryKinds == {"probe", "get", "sendDocument", "sendMessage"}

\* the record loaded for this run holds exactly this tag for the repository
Stored(R, t) == R \in DOMAIN loaded /\ loaded[R] = t

\* some entry of the log of this kind, repository, asset and outcome
Logged(kind, R, a, ok) ==
  \E i \in LogIdx : /\ log[i].kind = kind /\ log[i].repo = R
                    /\ log[i].asset = a /\ log[i].ok = ok

\* the fetch of R succeeded in this run and returned tag t with n assets
Fetched(R, t, n) ==
  \E i \in LogIdx : /\ log[i].kind = "fetch" /\ log[i].repo = R /\ log[i].ok
                    /\ log[i].data = <<t, n>>

\* asset a of R went to one of the two delivery paths
Routed(R, a) == Logged("get", R, a, TRUE) \/ Logged("get", R, a, FALSE)
                  \/ Logged("link", R, a, TRUE)

\* the fetch of R succeeded in this run and returned tag t
FetchedTag(R, t) ==
  \E i \in LogIdx : /\ log[i].kind = "fetch" /\ log[i].repo = R /\ log[i].ok
                    /\ log[i].data[1] = t

\* some asset of R was appended to the link message
HasLinks(R) == \E a \in 1..MaxAssets : Logged("link", R, a, TRUE)

\* a request made for R returned an error to process_repos
DeliveryFailed(R) ==
  \E i \in LogIdx : /\ log[i].repo = R /\ ~log[i].ok
                    /\ log[i].kind \in {"get", "sendDocument", "sendMessage"}

\* the state file holds the entry (R, t)
Persisted(R, t) == file.state = "valid" /\ <<R, t>> \in file.doc

\* C1: a repository whose stored tag equals the fetched tag gets no size
\* probe, no asset download, no sendDocument and no sendMessage in the run.
C1_UnchangedNoDelivery ==
  \A i \in LogIdx :
    log[i].kind \in DeliveryKinds =>
      /\ \E j \in 1..i : log[j].kind = "fetch" /\ log[j].repo = log[i].repo
      /\ \A j \in LogIdx :
           (log[j].kind = "fetch" /\ log[j].repo = log[i].repo) =>
             (log[j].ok /\ ~Stored(log[i].repo, log[j].data[1]))

C1_Witness ==
  /\ pc = "done"
  /\ \E R \in Polled, t \in Tags :
       Stored(R, t) /\ FetchedTag(R, t) /\ Logged("skip", R, 0, TRUE)
  /\ \E R \in Polled : Logged("sendDocument", R, 1, TRUE)

\* C2: a fetched repository is treated as changed exactly when the loaded
\* record has no entry for it or holds another tag; when the run returns Ok
\* every asset of every changed release was routed and the state file maps
\* the repository to the fetched tag.
C2_ChangedDelivered ==
  /\ \A i \in LogIdx :
       (log[i].kind = "fetch" /\ log[i].ok) =>
         /\ i < Len(log)
         /\ log[i + 1].repo = log[i].repo
         /\ log[i + 1].kind =
              IF log[i].repo \notin DOMAIN loaded
                   \/ loaded[log[i].repo] # log[i].data[1]
                THEN "new" ELSE "skip"
  /\ pc = "done" =>
       \A R \in Polled :
         /\ \E t \in Tags : FetchedTag(R, t)
         /\ \A t \in Tags, n \in 0..MaxAssets :
              (Fetched(R, t, n) /\ ~Stored(R, t)) =>
                /\ \A a \in 1..n : Routed(R, a)
                /\ Persisted(R, t)

C2_Witness ==
  /\ pc = "done"
  /\ \E R \in Polled :
       /\ R \in DOMAIN loaded /\ Fetched(R, "v2", 2) /\ loaded[R] = "v1"
       /\ Logged("sendDocument", R, 1, TRUE)
       /\ Logged("link", R, 2, TRUE)
  /\ \E R \in Polled : R \notin DOMAIN loaded /\ Logged("new", R, 0, TRUE)

LastKind(l) == IF Len(l) = 0 THEN "none" ELSE l[Len(l)].kind

\* C3: a probed size in 1..52,428,800 takes the upload path and adds nothing
\* to the link message; size 0 or above 52,428,800 takes the link path and
\* no body download or sendDocument is issued for the asset.
C3_SizeRouting ==
  [][/\ (pc = "route" /\ size > 0 /\ size <= 52428800) =>
          (pc' = "get" /\ message' = message /\ log' = log)
     /\ (pc = "route" /\ (size = 0 \/ size > 52428800)) =>
          /\ pc' = "assets" /\ ai' = ai + 1
          /\ message' = message \o <<<<"link", ai>>, <<"curl", ai>>>>
          /\ log' = Append(log, Ev("link", CurRepo, ai, TRUE, <<>>))
     /\ (Len(log') > Len(log) /\ LastKind(log') \in {"get", "sendDocument"}) =>
          (size > 0 /\ size <= 52428800)
     /\ (pc = "route" /\ size = 52428800) => pc' = "get"
     /\ (pc = "route" /\ size = 52428801) => LastKind(log') = "link"
    ]_vars

C3_Witness ==
  /\ pc = "assets" /\ ai = 3
  /\ resp = [kind |-> "length", len |-> 52428801]
  /\ Logged("sendDocument", CurRepo, 1, TRUE)
  /\ Logged("link", CurRepo, 2, TRUE)

\* the asset loop of R's release has run to its end
LoopFinished(R) ==
  /\ Logged("new", R, 0, TRUE)
  /\ \E k \in 1..Len(repos) :
       /\ repos[k] = R
       /\ \/ k < ri
          \/ k = ri /\ pc = "insert"
          \/ k = ri /\ pc = "assets" /\ ai > release.assets

AssetsOf(R) ==
  IF \E i \in LogIdx : log[i].kind = "fetch" /\ log[i].repo = R /\ log[i].ok
    THEN log[CHOOSE i \in LogIdx :
               log[i].kind = "fetch" /\ log[i].repo = R /\ log[i].ok].data[2]
    ELSE 0

\* C5: when the body download or the sendDocument call of one asset fails,
\* the sibling assets of the release are still probed and routed and the
\* link message, if it has entries, is still sent.
C5_UploadFailureIsolated ==
  RunEnded =>
    \A i \in LogIdx :
      (log[i].kind \in {"get", "sendDocument"} /\ ~log[i].ok) =>
        /\ \A a \in 1..AssetsOf(log[i].repo) :
             Logged("probe", log[i].repo, a, TRUE) /\ Routed(log[i].repo, a)
        /\ HasLinks(log[i].repo) =>
             \E ok \in BOOLEAN : Logged("sendMessage", log[i].repo, 0, ok)

\* C6: when the release fetch of one repository fails, every later
\* repository of the list is still fetched and the state file is still saved.
C6_FetchFailureIsolated ==
  RunEnded =>
    \A k \in 1..Len(repos) :
      Logged("fetch", repos[k], 0, FALSE) =>
        /\ \A j \in (k + 1)..Len(repos) :
             \E ok \in BOOLEAN : Logged("fetch", repos[j], 0, ok)
        /\ \E ok \in BOOLEAN : Logged("save", "", 0, ok)

\* the release of R with tag t was fetched and delivered in full in this
\* run: every asset routed, every upload and the link message sent, and no
\* request of the delivery returned an error
FullyProcessed(R, t) ==
  /\ FetchedTag(R, t)
  /\ \A a \in 1..AssetsOf(R) :
       \/ Logged("link", R, a, TRUE)
       \/ Logged("get", R, a, TRUE) /\ Logged("sendDocument", R, a, TRUE)
  /\ HasLinks(R) => Logged("sendMessage", R, 0, TRUE)
  /\ ~DeliveryFailed(R)

\* C7: every entry of the state file that a run wrote (an entry the record
\* loaded at the start of the run did not hold) is the tag of a release that
\* was fetched and fully processed in that run.
C7_PersistedOnlyIfProcessed ==
  (pc # "start" /\ file.state = "valid") =>
    \A p \in file.doc : ~Stored(p[1], p[2]) => FullyProcessed(p[1], p[2])

C7_Witness ==
  /\ pc = "done"
  /\ \E R \in Polled :
       /\ Persisted(R, "v2") /\ Stored(R, "v1")
       /\ Logged("sendDocument", R, 1, TRUE)
       /\ Logged("link", R, 2, TRUE)
  /\ \E R \in Polled : R \notin DOMAIN loaded /\ Persisted(R, "v1")

\* C8: whenever a changed release of R was fetched, the state file maps R
\* to its tag at the end of the run, even when an upload or the link message
\* of the release failed.
C8_SeenDespiteDeliveryFailure ==
  RunEnded =>
    \A R \in Polled, t \in Tags :
      (FetchedTag(R, t) /\ ~Stored(R, t) /\ DeliveryFailed(R)) =>
        Persisted(R, t)

\* every repository of the list was fetched and its tag is the stored one
AllUnchanged ==
  \A R \in Polled : \E t \in Tags : FetchedTag(R, t) /\ Stored(R, t)

\* C9: in a run where every fetched tag equals the stored tag, the release
\* fetch is the only request, the state file is not written and the run
\* returns Ok.
C9_NoChangeNoWrite ==
  (RunEnded /\ AllUnchanged) =>
    /\ \A i \in LogIdx : log[i].kind \in {"fetch", "skip"}
    /\ pc = "done"

\* C10: a run that starts after a successful run, with no release published
\* in between, issues no probe, download, upload or text message and leaves
\* the record, in memory and on disk, as it was loaded.
C10_RerunIdempotent ==
  rerun =>
    /\ \A i \in LogIdx : log[i].kind \in {"fetch", "skip", "save"}
    /\ prev = loaded
    /\ pc = "done" => (file.state = "valid" /\ FromJson(file.doc) = loaded)

C10_Witness ==
  /\ rerun
  /\ pc = "done"
  /\ \A R \in Polled : Logged("skip", R, 0, TRUE) /\ Persisted(R, latest[R])
  /\ \E R \in Polled : latest[R] = "v2"
\* the positions in the log of the entries of this kind for R
Positions(kind, R) ==
  {i \in LogIdx : log[i].kind = kind /\ log[i].repo = R}

\* the assets of R that were appended to the link message, in log order
RECURSIVE LinkedUpTo(_, _)
LinkedUpTo(R, k) ==
  IF k = 0 THEN <<>>
  ELSE IF log[k].kind = "link" /\ log[k].repo = R
    THEN Append(LinkedUpTo(R, k - 1), log[k].asset)
    ELSE LinkedUpTo(R, k - 1)

\* the text a link message for R must carry: the header, then the link line
\* and the curl block of each linked asset
RECURSIVE ExpectedText(_, _, _)
ExpectedText(R, t, linked) ==
  IF linked = <<>> THEN <<<<"header", R, t>>>>
  ELSE ExpectedText(R, t, SubSeq(linked, 1, Len(linked) - 1))
         \o <<<<"link", linked[Len(linked)]>>, <<"curl", linked[Len(linked)]>>>>

\* a sequence of asset indexes is strictly increasing (release asset order)
Increasing(q) == \A i \in 1..(Len(q) - 1) : q[i] < q[i + 1]

\* C11: per repository and run at most one sendMessage is issued; it is
\* issued exactly when some asset took the link path, only after every asset
\* of the release was routed and every sendDocument of the release was
\* issued, and its text holds one entry per linked asset in asset order.
C11_OneTextAfterRouting ==
  \A R \in Polled :
    /\ Cardinality(Positions("sendMessage", R)) <= 1
    /\ \A i \in Positions("sendMessage", R) :
         /\ LinkedUpTo(R, i) # <<>>
         /\ \A a \in 1..AssetsOf(R) :
              \E j \in 1..(i - 1) :
                /\ log[j].repo = R /\ log[j].asset = a
                /\ log[j].kind \in {"get", "link"}
         /\ \A j \in Positions("sendDocument", R) \cup Positions("link", R) :
              j < i
         /\ Increasing(LinkedUpTo(R, i))
         /\ \E t \in Tags :
              /\ FetchedTag(R, t)
              /\ log[i].data = ExpectedText(R, t, LinkedUpTo(R, i))
    /\ (RunEnded /\ HasLinks(R)) => Positions("sendMessage", R) # {}
\* C12: a sendDocument or sendMessage call answered with a non-2xx status
\* yields an error outcome for that asset or message and is not counted as
\* a delivery that succeeded.
C12_Non2xxIsError ==
  status = "non2xx" =>
    /\ ~log[Len(log)].ok
    /\ pc = "failed"
Idle == {"start", "done", "failed"}

\* C13: load_prev never fails: with a missing, unreadable or malformed state
\* file the run starts with an empty record and goes on to the repository
\* loop, where every fetched repository is treated as changed.
C13_LoadNeverFails ==
  /\ [][(pc \in Idle /\ latest' = latest) =>
          /\ pc' = "repos"
          /\ file.state # "valid" => (prev' = EmptyMap /\ loaded' = EmptyMap)
       ]_vars
  /\ []((pc \notin Idle /\ file.state # "valid") =>
          /\ loaded = EmptyMap
          /\ \A i \in LogIdx : log[i].kind # "skip"
          /\ \A R \in Polled :
               Logged("fetch", R, 0, TRUE) => Logged("new", R, 0, TRUE))

C13_Witness ==
  /\ pc = "repos"
  /\ ri > Len(repos)
  /\ file.state \in {"unreadable", "malformed"}
  /\ \A R \in Polled : Logged("new", R, 0, TRUE) /\ R \in DOMAIN prev
\* ------------------------------------------- save_prev / load_prev alone
\* every record over the known repositories and tags
Records == UNION {[S -> Tags] : S \in SUBSET AllRepos}

\* a record to save and a state file to overwrite
RTInit ==
  /\ prev \in Records
  /\ file \in {NoFile, Truncated} \cup {ValidFile(m) : m \in Records}
  /\ pc = "rt_save"
  /\ loaded = EmptyMap
  /\ latest = [r \in {repos[i] : i \in 1..Len(repos)} |-> "v1"]
  /\ ri = 1
  /\ release = NoRelease
  /\ ai = 1
  /\ resp = NoResp
  /\ size = 0
  /\ message = <<>>
  /\ sent_text = FALSE
  /\ status = "none"
  /\ log = <<>>
  /\ settled = FALSE
  /\ rerun = FALSE
  /\ DownloadIdle

\* save_prev(path, &prev)
RTSave ==
  /\ pc = "rt_save"
  /\ \E ok \in BOOLEAN :
       /\ file' \in save_prev(file, prev, ok)
       /\ pc' = IF ok THEN "rt_saved" ELSE "rt_failed"
  /\ UNCHANGED <<latest, prev, loaded, ri, release, ai, resp, size, message,
                 sent_text, status, log, settled, rerun>>
  /\ UNCHANGED dvars

\* load_prev(path)
RTLoad ==
  /\ pc \in {"rt_saved", "rt_failed"}
  /\ loaded' = load_prev(file)
  /\ pc' = IF pc = "rt_saved" THEN "rt_loaded" ELSE "rt_stale"
  /\ UNCHANGED <<file, latest, prev, ri, release, ai, resp, size, message,
                 sent_text, status, log, settled, rerun>>
  /\ UNCHANGED dvars

RTNext ==
  \/ RTSave
  \/ RTLoad

RTSpec == RTInit /\ [][RTNext]_vars

PathOf(repo, a) == [dir |-> repo, name |-> a]

\* the error a task ends with: of the GET (reqwest) or of the write (io)
Failed == {"get_failed", "write_failed"}
Finished == {"ok"} \cup Failed

\* download_assets_concurrent(repo, release) is called
DInit ==
  /\ dpc = "mkdir"
  /\ drepo \in {repos[i] : i \in 1..Len(repos)}
  /\ dn \in 0..MaxAssets
  /\ di = 1
  /\ tasks = [a \in 1..dn |-> "unspawned"]
  /\ file_paths = <<>>
  /\ dresult = NoResult
  /\ file = NoFile
  /\ latest = [r \in {repos[i] : i \in 1..Len(repos)} |-> "v1"]
  /\ pc = "start"
  /\ prev = EmptyMap
  /\ loaded = EmptyMap
  /\ ri = 1
  /\ release = NoRelease
  /\ ai = 1
  /\ resp = NoResp
  /\ size = 0
  /\ message = <<>>
  /\ sent_text = FALSE
  /\ status = "none"
  /\ log = <<>>
  /\ settled = FALSE
  /\ rerun = FALSE

\* fs::create_dir_all(&dir).await?
CreateDir ==
  /\ dpc = "mkdir"
  /\ \E ok \in BOOLEAN :
       IF ok
         THEN /\ dpc' = IF dn = 0 THEN "join" ELSE "spawn"
              /\ dresult' = dresult
         ELSE /\ dpc' = "returned"
              /\ dresult' = [NoResult EXCEPT !.kind = "err", !.error = "mkdir_failed"]
  /\ UNCHANGED <<drepo, dn, di, tasks, file_paths>>
  /\ UNCHANGED pvars

\* one turn of the spawn loop: push the path, tokio::spawn the download
Spawn ==
  /\ dpc = "spawn"
  /\ di <= dn
  /\ file_paths' = Append(file_paths, PathOf(drepo, di))
  /\ tasks' = [tasks EXCEPT ![di] = "get"]
  /\ di' = IF di = dn THEN 1 ELSE di + 1
  /\ dpc' = IF di = dn THEN "join" ELSE "spawn"
  /\ UNCHANGED <<drepo, dn, dresult>>
  /\ UNCHANGED pvars

\* download_asset in a spawned task: client.get(url).send().await?.bytes().await?
TaskGet ==
  /\ \E a \in 1..dn :
       /\ tasks[a] = "get"
       /\ \E ok \in BOOLEAN :
            tasks' = [tasks EXCEPT ![a] = IF ok THEN "write" ELSE "get_failed"]
  /\ UNCHANGED <<dpc, drepo, dn, di, file_paths, dresult>>
  /\ UNCHANGED pvars

\* download_asset in a spawned task: fs::write(&path, &bytes).await?
TaskWrite ==
  /\ \E a \in 1..dn :
       /\ tasks[a] = "write"
       /\ \E ok \in BOOLEAN :
            tasks' = [tasks EXCEPT ![a] = IF ok THEN "ok" ELSE "write_failed"]
  /\ UNCHANGED <<dpc, drepo, dn, di, file_paths, dresult>>
  /\ UNCHANGED pvars

\* one turn of the join loop, t.await??: wait for task di; its error is
\* returned at once, as it is
Join ==
  /\ dpc = "join"
  /\ di <= dn
  /\ tasks[di] \in Finished
  /\ IF tasks[di] = "ok"
       THEN /\ di' = di + 1
            /\ UNCHANGED <<dpc, dresult>>
       ELSE /\ dpc' = "returned"
            /\ dresult' = [NoResult EXCEPT !.kind = "err", !.error = tasks[di],
                                            !.failed = {di}]
            /\ di' = di
  /\ UNCHANGED <<drepo, dn, tasks, file_paths>>
  /\ UNCHANGED pvars

\* Ok(file_paths)
ReturnPaths ==
  /\ dpc = "join"
  /\ di > dn
  /\ dpc' = "returned"
  /\ dresult' = [NoResult EXCEPT !.kind = "ok", !.paths = file_paths]
  /\ UNCHANGED <<drepo, dn, di, tasks, file_paths>>
  /\ UNCHANGED pvars

DNext ==
  \/ CreateDir
  \/ Spawn
  \/ TaskGet
  \/ TaskWrite
  \/ Join
  \/ ReturnPaths

DSpec == DInit /\ [][DNext]_vars

\* the assets whose task ended in one of these states
Ended(sts) == {a \in 1..dn : tasks[a] \in sts}

\* C15: if the download task of any asset fails, the operation returns an
\* error that lists exactly the failing assets and the paths of the
\* succeeding ones, and never a success.
C15_PartialDownloadError ==
  (dpc = "returned" /\ Ended(Failed) # {}
     /\ \A a \in 1..dn : tasks[a] \in Finished) =>
    /\ dresult.kind = "err"
    /\ dresult.failed = Ended(Failed)
    /\ dresult.succeeded = {PathOf(drepo, a) : a \in Ended({"ok"})}

\* C16: download_assets_concurrent returns only after every task it spawned
\* has finished.
C16_ReturnsAfterAllTasks ==
  dpc = "returned" =>
    \A a \in 1..dn : tasks[a] \in Finished \cup {"unspawned"}
\* the positions in the log of the calls of save_prev
Saves == {i \in LogIdx : log[i].kind = "save"}

\* C17: the state file is written at most once per run, by the save that
\* follows the loop over all repositories, and only when no request of the
\* run returned an error; a run that aborts inside the loop leaves the file
\* as it was, so the tags of the repositories it had already notified are
\* not recorded and the next run treats them as changed again.
C17_SavedOnceAtEnd ==
  /\ [][file' # file =>
          /\ pc = "repos" /\ ri > Len(repos)
          /\ Saves = {}
          /\ \A i \in LogIdx : log[i].ok
          /\ \A R \in Polled : \E t \in Tags : FetchedTag(R, t)
       ]_vars
  /\ [](Cardinality(Saves) <= 1)
  /\ []((pc = "failed" /\ Saves = {}) =>
          \A R \in Polled, t \in Tags :
            (FetchedTag(R, t) /\ Logged("new", R, 0, TRUE)) =>
              /\ ~Persisted(R, t)
              /\ HasChanged(load_prev(file), R, t))

C17_Witness ==
  /\ pc = "failed"
  /\ Saves = {}
  /\ Logged("sendDocument", repos[1], 1, TRUE)
  /\ repos[1] \in DOMAIN prev
  /\ Logged("fetch", repos[2], 0, FALSE)
  /\ ~Persisted(repos[1], prev[repos[1]])

\* C18: processing a repository changes at most its own entry of the
\* record: every other entry, also of a repository that is in the state
\* file but not in the list, reaches the saved file unchanged, and no entry
\* is removed.
C18_OnlyOwnEntryChanges ==
  /\ [][(prev' # prev /\ pc \notin Idle) =>
          /\ DOMAIN prev' = DOMAIN prev \cup {CurRepo}
          /\ \A k \in DOMAIN prev : k # CurRepo => prev'[k] = prev[k]
       ]_vars
  /\ [](pc = "done" =>
          /\ \A k \in DOMAIN loaded :
               /\ \E t \in Tags : Persisted(k, t)
               /\ ~Logged("new", k, 0, TRUE) => Persisted(k, loaded[k])
          /\ \A p \in file.doc :
               p[1] \in DOMAIN loaded \/ Logged("new", p[1], 0, TRUE))

C18_Witness ==
  /\ pc = "done"
  /\ Stored(OtherRepo, "v1") /\ Persisted(OtherRepo, "v1")
  /\ Stored(repos[1], "v1") /\ Persisted(repos[1], "v2")
  /\ Stored(repos[2], "v2") /\ Persisted(repos[2], "v2")
  /\ Logged("new", repos[1], 0, TRUE)
  /\ Logged("skip", repos[2], 0, TRUE)
====
